---- MODULE Spec2Model ----
(***************************************************************************)
(* A model of the PEP candidate pipeline: the MyNeta candidate matcher     *)
(* (extract2.py), the field extractors (extract_from_myneta.py), the       *)
(* address resolver (enrich_addresses.py) and the join stage (merge.py).   *)
(*                                                                         *)
(* Text is a sequence of characters; a character is a one-element string.  *)
(***************************************************************************)
EXTENDS Integers, Sequences, FiniteSets, TLC

VARIABLES
    fn_pc, fn_arg, fn_ret,            \* one call of a pure function
    candidates, cand_i, neta_links,   \* the loop over candidates
    pc, attempt, tried_urls,          \* search_myneta_for_candidate: control state
    page_rows, page_query,            \* the rows the results table shows, and for which query
    rows_n, row_i, verdicts,          \* the evaluation loop over rows
    stab_k,                           \* iterations of the stabilisation loop
    result,                           \* the value returned
    backoffs, broadened, rows_seen,   \* sleeps taken; the broadened query found rows; a wait found rows
    addresses, batch_i, all_results,  \* process_address_batches
    a_pc, provider_log, cities, pincodes

fn_vars == <<fn_pc, fn_arg, fn_ret>>
m_vars == <<candidates, cand_i, neta_links, pc, attempt, tried_urls, page_rows,
            page_query, rows_n, row_i, verdicts, stab_k, result, backoffs,
            broadened, rows_seen>>
a_vars == <<addresses, batch_i, all_results, a_pc, provider_log, cities, pincodes>>
vars == <<fn_vars, m_vars, a_vars>>

-----------------------------------------------------------------------------
(* Characters and strings *)

LowerChars == <<"a","b","c","d","e","f","g","h","i","j","k","l","m",
                "n","o","p","q","r","s","t","u","v","w","x","y","z">>
UpperChars == <<"A","B","C","D","E","F","G","H","I","J","K","L","M",
                "N","O","P","Q","R","S","T","U","V","W","X","Y","Z">>
Range(s) == {s[i] : i \in DOMAIN s}
\* n consecutive members of the pool, cyclically, after skipping shift
Cycle(pool, n, shift) == [k \in 1..n |-> pool[((k - 1 + shift) % Len(pool)) + 1]]
Lower == Range(LowerChars)
Upper == Range(UpperChars)
DigitChars == <<"0","1","2","3","4","5","6","7","8","9">>
Digit == Range(DigitChars)
\* \s of the re module (the members the model uses)
Space == {" ", "\t", "\n"}
\* \w of the re module: letters, digits and the underscore
Word == Lower \cup Upper \cup Digit \cup {"_", "U+0130"}

IsDigit(c) == c \in Digit
IsWord(c) == c \in Word
IsSpace(c) == c \in Space

\* Two code points outside ASCII, each written as one character token:
\* U+0130 (capital I with dot above, a letter) and U+0307 (combining dot
\* above, a mark: neither \w nor \s)
CapitalIDot == "U+0130"
CombiningDot == "U+0307"

\* str.lower() of one character: U+0130 lowers to "i" followed by U+0307
LowerChar(c) ==
    IF c \in Upper
    THEN <<LowerChars[CHOOSE i \in DOMAIN UpperChars : UpperChars[i] = c]>>
    ELSE IF c = CapitalIDot THEN <<"i", CombiningDot>>
    ELSE <<c>>

\* str.lower()
RECURSIVE lower(_)
lower(s) == IF s = <<>> THEN <<>> ELSE LowerChar(Head(s)) \o lower(Tail(s))

DigitValue(c) == (CHOOSE i \in DOMAIN DigitChars : DigitChars[i] = c) - 1

\* x in s  (substring test of two strings)
Contains(s, x) ==
    \E i \in 0..(Len(s) - Len(x)) :
        \A k \in 1..Len(x) : s[i + k] = x[k]

\* s.find(x): the first 0-based offset of x in s, or -1
Find(s, x) ==
    IF Contains(s, x)
    THEN CHOOSE i \in 0..(Len(s) - Len(x)) :
            /\ \A k \in 1..Len(x) : s[i + k] = x[k]
            /\ \A h \in 0..(i - 1) : \E k \in 1..Len(x) : s[h + k] # x[k]
    ELSE -1

\* s.replace(c, "") for a single character c
RemoveChar(s, c) == SelectSeq(s, LAMBDA x : x # c)

\* s.split(sep, 1)[0] for a non-empty separator
SplitFirst(s, sep) ==
    IF Find(s, sep) = -1 THEN s ELSE SubSeq(s, 1, Find(s, sep))

\* int(s) for a non-empty run of decimal digits
RECURSIVE IntOfDigits(_)
IntOfDigits(s) ==
    IF s = <<>> THEN 0
    ELSE 10 * IntOfDigits(SubSeq(s, 1, Len(s) - 1)) + DigitValue(s[Len(s)])

\* str(n) for an integer n >= 0
RECURSIVE StrOfNat(_)
StrOfNat(n) ==
    IF n < 10 THEN <<DigitChars[n + 1]>>
    ELSE StrOfNat(n \div 10) \o <<DigitChars[(n % 10) + 1]>>

\* re.findall(r"\d+", s)[0]: the first maximal run of digits of s, or <<>>
FirstDigitRun(s) ==
    IF \A i \in DOMAIN s : ~IsDigit(s[i]) THEN <<>>
    ELSE LET lo == CHOOSE i \in DOMAIN s :
                      /\ IsDigit(s[i])
                      /\ \A h \in 1..(i - 1) : ~IsDigit(s[h])
             hi == CHOOSE j \in lo..Len(s) :
                      /\ \A h \in lo..j : IsDigit(s[h])
                      /\ (j = Len(s) \/ ~IsDigit(s[j + 1]))
         IN SubSeq(s, lo, hi)

-----------------------------------------------------------------------------
(* extract2.py: normalize_text and similar *)

\* re.sub(r"[^\w\s]", "", s)
StripPunctuation(s) == SelectSeq(s, LAMBDA c : IsWord(c) \/ IsSpace(c))

\* re.sub(r"\s+", " ", s)
RECURSIVE CollapseSpaces(_)
CollapseSpaces(s) ==
    IF s = <<>> THEN <<>>
    ELSE IF IsSpace(Head(s))
         THEN IF Len(s) > 1 /\ IsSpace(s[2])
              THEN CollapseSpaces(Tail(s))
              ELSE <<" ">> \o CollapseSpaces(Tail(s))
         ELSE <<Head(s)>> \o CollapseSpaces(Tail(s))

\* str.strip()
RECURSIVE strip(_)
strip(s) ==
    IF s = <<>> THEN <<>>
    ELSE IF IsSpace(Head(s)) THEN strip(Tail(s))
    ELSE IF IsSpace(s[Len(s)]) THEN strip(SubSeq(s, 1, Len(s) - 1))
    ELSE s

normalize_text(s) ==
    IF s = <<>> THEN <<>>
    ELSE lower(strip(CollapseSpaces(StripPunctuation(s))))

\* the length of the common run of a[i..ahi] and b[j..bhi] from their starts
RECURSIVE RunLen(_, _, _, _, _, _)
RunLen(a, b, i, j, ahi, bhi) ==
    IF i > ahi \/ j > bhi THEN 0
    ELSE IF a[i] # b[j] THEN 0
    ELSE 1 + RunLen(a, b, i + 1, j + 1, ahi, bhi)

\* SequenceMatcher.find_longest_match on a[alo..ahi], b[blo..bhi] (1-based,
\* inclusive; no junk): the longest common block, of those the one starting
\* earliest in a, and of those the one starting earliest in b
find_longest_match(a, b, alo, ahi, blo, bhi) ==
    LET pairs == (alo..ahi) \X (blo..bhi)
        len(p) == RunLen(a, b, p[1], p[2], ahi, bhi)
    IN IF \A p \in pairs : len(p) = 0 THEN <<alo, blo, 0>>
       ELSE LET best == CHOOSE p \in pairs :
                          \A q \in pairs :
                             \/ len(q) < len(p)
                             \/ /\ len(q) = len(p)
                                /\ (p[1] < q[1] \/ (p[1] = q[1] /\ p[2] <= q[2]))
            IN <<best[1], best[2], len(best)>>

\* the total size of SequenceMatcher.get_matching_blocks
RECURSIVE MatchTotal(_, _, _, _, _, _)
MatchTotal(a, b, alo, ahi, blo, bhi) ==
    IF alo > ahi \/ blo > bhi THEN 0
    ELSE LET m == find_longest_match(a, b, alo, ahi, blo, bhi)
             i == m[1]
             j == m[2]
             k == m[3]
         IN IF k = 0 THEN 0
            ELSE k + MatchTotal(a, b, alo, i - 1, blo, j - 1)
                   + MatchTotal(a, b, i + k, ahi, j + k, bhi)

\* similar(a, b) as the fraction num/den: 2.0 * matches / (len(a) + len(b)),
\* and 0.0 when either is empty
similar(a, b) ==
    IF a = <<>> \/ b = <<>> THEN [num |-> 0, den |-> 1]
    ELSE [num |-> 2 * MatchTotal(a, b, 1, Len(a), 1, Len(b)),
          den |-> Len(a) + Len(b)]

\* r >= 0.70
AtLeastThreshold(r) == 100 * r.num >= 70 * r.den

\* s.split(): the set of whitespace-delimited tokens of s
Tokens(s) ==
    {SubSeq(s, i, j) : <<i, j>> \in
        {p \in (1..Len(s)) \X (1..Len(s)) :
            /\ p[1] <= p[2]
            /\ \A h \in p[1]..p[2] : ~IsSpace(s[h])
            /\ (p[1] = 1 \/ IsSpace(s[p[1] - 1]))
            /\ (p[2] = Len(s) \/ IsSpace(s[p[2] + 1]))}}

-----------------------------------------------------------------------------
(* extract_from_myneta.py: extract_amount *)

NilText == <<"n","i","l">>
Tilde == <<"~">>

\* a variant that does not cut the text at the '~' marker
extract_amount_keeps_approximation(text) ==
    IF text = <<>> \/ Contains(lower(text), NilText) THEN 0
    ELSE LET cleaned == RemoveChar(text, ",")
             nums0 == FirstDigitRun(cleaned)
         IN IF nums0 # <<>> THEN IntOfDigits(nums0) ELSE 0

extract_amount(text) ==
    IF text = <<>> \/ Contains(lower(text), NilText) THEN 0
    ELSE LET left == SplitFirst(text, Tilde)
             cleaned == RemoveChar(left, ",")
             nums0 == FirstDigitRun(cleaned)
         IN IF nums0 # <<>> THEN IntOfDigits(nums0) ELSE 0

-----------------------------------------------------------------------------
(* extract_from_myneta.py: format_unit *)

CroreUnit == 10000000
LakhUnit == 100000
ThousandUnit == 1000

CroreSuffix == <<" ","C","r","o","r","e">>
LakhSuffix == <<" ","L","a","k","h">>
ThousandSuffix == <<" ","T","h","o","u","s","a","n","d">>

\* a variant that rounds to the nearest unit instead of flooring
format_unit_rounded(amount) ==
    LET a == amount
        near(u) == (a + u \div 2) \div u
    IN IF a <= 0 THEN <<"0">>
       ELSE IF a >= CroreUnit THEN StrOfNat(near(CroreUnit)) \o CroreSuffix
       ELSE IF a >= LakhUnit THEN StrOfNat(near(LakhUnit)) \o LakhSuffix
       ELSE IF a >= ThousandUnit THEN StrOfNat(near(ThousandUnit)) \o ThousandSuffix
       ELSE StrOfNat(a)

\* amount is an integer, for which int(amount) is amount itself
format_unit(amount) ==
    LET a == amount
    IN IF a <= 0 THEN <<"0">>
       ELSE IF a >= CroreUnit THEN StrOfNat(a \div CroreUnit) \o CroreSuffix
       ELSE IF a >= LakhUnit THEN StrOfNat(a \div LakhUnit) \o LakhSuffix
       ELSE IF a >= ThousandUnit THEN StrOfNat(a \div ThousandUnit) \o ThousandSuffix
       ELSE StrOfNat(a)

-----------------------------------------------------------------------------
(* The parts of the state a specification does not use stay at rest *)

NoValue == <<>>

IdleFn == fn_pc = "idle" /\ fn_arg = NoValue /\ fn_ret = NoValue

IdleMatcher ==
    /\ candidates = <<>> /\ cand_i = 0 /\ neta_links = <<>>
    /\ pc = "idle" /\ attempt = 0 /\ tried_urls = {}
    /\ page_rows = <<>> /\ page_query = "home"
    /\ rows_n = 0 /\ row_i = 0 /\ verdicts = <<>> /\ stab_k = 0
    /\ result = <<>> /\ backoffs = <<>> /\ broadened = FALSE /\ rows_seen = FALSE

IdleAddr ==
    /\ addresses = <<>> /\ batch_i = 0 /\ all_results = <<>>
    /\ a_pc = "idle" /\ provider_log = <<>> /\ cities = <<>> /\ pincodes = <<>>

-----------------------------------------------------------------------------
(* Specification of format_unit: one call on each tested amount *)

AmountSpan == 30
ExampleAmounts == {60000, 800000, 15000000}
Amounts ==
    UNION {(t - AmountSpan)..(t + AmountSpan) :
              t \in {0, ThousandUnit, LakhUnit, CroreUnit}}
    \cup {i * 7919 : i \in 0..AmountSpan}
    \cup {i * 654321 : i \in 0..AmountSpan}
    \cup ExampleAmounts

InitUnit ==
    /\ fn_pc = "call" /\ fn_arg \in Amounts /\ fn_ret = NoValue
    /\ IdleMatcher /\ IdleAddr

CallFormatUnit ==
    /\ fn_pc = "call"
    /\ fn_ret' = format_unit(fn_arg)
    /\ fn_pc' = "done"
    /\ UNCHANGED <<fn_arg, m_vars, a_vars>>

NextUnit == CallFormatUnit

SpecUnit == InitUnit /\ [][NextUnit]_vars

RECURSIVE Pow10(_)
Pow10(k) == IF k = 0 THEN 1 ELSE 10 * Pow10(k - 1)

RECURSIVE SumTo(_, _)
SumTo(f, n) == IF n = 0 THEN 0 ELSE f[n] + SumTo(f, n - 1)

\* s is the canonical decimal numeral of n: digits only, no leading zero
IsDecimalOf(s, n) ==
    /\ Len(s) >= 1
    /\ \A i \in DOMAIN s : s[i] \in Digit
    /\ (Len(s) > 1 => s[1] # "0")
    /\ SumTo([i \in DOMAIN s |-> DigitValue(s[i]) * Pow10(Len(s) - i)], Len(s)) = n

\* s is the numeral of n followed by the unit word
IsQuantity(s, n, unit) ==
    /\ Len(s) > Len(unit)
    /\ IsDecimalOf(SubSeq(s, 1, Len(s) - Len(unit)), n)
    /\ SubSeq(s, Len(s) - Len(unit) + 1, Len(s)) = unit

\* C9: format_unit gives "0" for amount <= 0, the plain numeral below 1,000,
\* and otherwise the floor of amount over 1,000 / 100,000 / 10,000,000 followed
\* by " Thousand" / " Lakh" / " Crore", with no rounding (15,000,000 is "1 Crore").
C9_FormatUnitTiers ==
    fn_pc = "done" =>
      LET a == fn_arg
          r == fn_ret
      IN /\ (a <= 0) => r = <<"0">>
         /\ (0 < a /\ a < 1000) => IsDecimalOf(r, a)
         /\ (1000 <= a /\ a < 100000) =>
                IsQuantity(r, a \div 1000, <<" ","T","h","o","u","s","a","n","d">>)
         /\ (100000 <= a /\ a < 10000000) =>
                IsQuantity(r, a \div 100000, <<" ","L","a","k","h">>)
         /\ (a >= 10000000) =>
                IsQuantity(r, a \div 10000000, <<" ","C","r","o","r","e">>)
         /\ (a = 60000) => r = <<"6","0"," ","T","h","o","u","s","a","n","d">>
         /\ (a = 800000) => r = <<"8"," ","L","a","k","h">>
         /\ (a = 15000000) => r = <<"1"," ","C","r","o","r","e">>

C9_Witness ==
    /\ fn_pc = "done"
    /\ fn_arg = 15000000
    /\ fn_ret = <<"1"," ","C","r","o","r","e">>

-----------------------------------------------------------------------------
(* Specification of extract_amount: one call on each tested text *)

MaxTextLen == 4
AmountAlphabet == {"N", "n", "i", "I", "l", "0", "1", ",", "~", "x"}
ExampleAmountText ==
    <<"R","s"," ","2",",","6","0",",","0","0","0"," ","~","2"," ","L","a","c","s","+">>

TextsUpTo(alphabet, n) == UNION {[1..k -> alphabet] : k \in 0..n}

AmountTexts ==
    TextsUpTo(AmountAlphabet, MaxTextLen)
    \cup {ExampleAmountText, <<"N","i","l">>, <<"0","0","7",",","5","~","9">>}

InitAmount ==
    /\ fn_pc = "call" /\ fn_arg \in AmountTexts /\ fn_ret = NoValue
    /\ IdleMatcher /\ IdleAddr

CallExtractAmount ==
    /\ fn_pc = "call"
    /\ fn_ret' = extract_amount(fn_arg)
    /\ fn_pc' = "done"
    /\ UNCHANGED <<fn_arg, m_vars, a_vars>>

NextAmount == CallExtractAmount

SpecAmount == InitAmount /\ [][NextAmount]_vars

\* "nil" occurs in t in some letter case
HasNilAnyCase(t) ==
    \E i \in 1..(Len(t) - 2) :
        /\ t[i] \in {"n", "N"}
        /\ t[i + 1] \in {"i", "I"}
        /\ t[i + 2] \in {"l", "L"}

\* the positions of t before its first '~'
BeforeTilde(t) == {p \in DOMAIN t : \A h \in 1..p : t[h] # "~"}

\* the positions of the first run of digits before the first '~', commas skipped
FirstRunPositions(t) ==
    LET P == BeforeTilde(t)
        D == {p \in P : t[p] \in Digit}
    IN IF D = {} THEN {}
       ELSE LET p0 == CHOOSE p \in D : \A q \in D : p <= q
            IN {p \in D : \A h \in p0..p : t[h] \in Digit \cup {","}}

\* the integer the digits at the positions R of t spell
ValueAt(t, R) ==
    LET w[p \in DOMAIN t] == Cardinality({q \in R : q > p})
    IN SumTo([p \in DOMAIN t |->
                 IF p \in R THEN DigitValue(t[p]) * Pow10(w[p]) ELSE 0], Len(t))

\* C10: extract_amount is 0 for an empty text or one containing "nil" in any
\* case; otherwise the value of the first digit run before the first '~' with
\* commas removed, 0 when there is no digit there.
C10_ExtractAmount ==
    fn_pc = "done" =>
      LET t == fn_arg
      IN /\ (t = <<>> \/ HasNilAnyCase(t)) => fn_ret = 0
         /\ (t # <<>> /\ ~HasNilAnyCase(t)) =>
                fn_ret = ValueAt(t, FirstRunPositions(t))
         /\ (t = ExampleAmountText) => fn_ret = 260000

C10_Witness ==
    /\ fn_pc = "done"
    /\ fn_arg = ExampleAmountText
    /\ fn_ret = 260000

-----------------------------------------------------------------------------
(* merge.py: the join stage *)

\* the rows pd.merge(how="left", on="Name") emits for one left row: one per
\* right row with an equal Name, in right order, or a single row whose
\* right-hand columns are missing
MergeRow(l, neta) ==
    LET hits == SelectSeq(neta, LAMBDA r : r.Name = l.Name)
    IN IF hits = <<>>
       THEN <<[Name |-> l.Name, Party |-> l.Party, Net_Worth |-> <<>>]>>
       ELSE [k \in DOMAIN hits |->
                [Name |-> l.Name, Party |-> l.Party,
                 Net_Worth |-> <<hits[k].Net_Worth>>]]

\* merged = pd.merge(eci, neta, on="Name", how="left")
RECURSIVE merged(_, _)
merged(eci, neta) ==
    IF eci = <<>> THEN <<>>
    ELSE MergeRow(Head(eci), neta) \o merged(Tail(eci), neta)

MaxLeft == 2
MaxRight == 2
JoinNames == {<<"R","a","m">>, <<"r","a","m">>, <<"S","i","t","a">>}
LeftRows == [Name : JoinNames, Party : {"BJP", "INC"}]
RightRows == [Name : JoinNames, Net_Worth : {10, 20}]
LeftTables == UNION {[1..k -> LeftRows] : k \in 0..MaxLeft}
RightTables == UNION {[1..k -> RightRows] : k \in 0..MaxRight}

InitJoin ==
    /\ fn_pc = "call" /\ fn_ret = NoValue
    /\ fn_arg \in [eci : LeftTables, neta : RightTables]
    /\ IdleMatcher /\ IdleAddr

CallMerge ==
    /\ fn_pc = "call"
    /\ fn_ret' = merged(fn_arg.eci, fn_arg.neta)
    /\ fn_pc' = "done"
    /\ UNCHANGED <<fn_arg, m_vars, a_vars>>

NextJoin == CallMerge

SpecJoin == InitJoin /\ [][NextJoin]_vars

\* C8: the joined output has exactly one row per left-side record, whatever
\* Names repeat on either side, and the financial fields are absent exactly
\* when no right row has an equal Name.
C8_OneRowPerLeftRecord ==
    fn_pc = "done" =>
      /\ Len(fn_ret) = Len(fn_arg.eci)
      /\ \A k \in DOMAIN fn_ret :
            /\ fn_ret[k].Name = fn_arg.eci[k].Name
            /\ (fn_ret[k].Net_Worth = <<>>) <=>
                   (\A r \in Range(fn_arg.neta) : r.Name # fn_ret[k].Name)

-----------------------------------------------------------------------------
(* enrich_addresses.py: process_address_batches *)

batch_size == 20

NA == <<"N","/","A">>

\* JSON values as json.loads returns them: a str, a number (kept as its
\* numeral) or null; an object is a record of the keys it has
JStr(v) == [t |-> "str", v |-> v]
JNum(v) == [t |-> "num", v |-> v]
JNull == [t |-> "null", v |-> <<>>]
\* a key the object does not have
Missing == [t |-> "missing", v |-> <<>>]

\* {"city": c, "pincode": p}; a list entry that is no object has isdict FALSE
Obj(c, p) == [isdict |-> TRUE, city |-> c, pincode |-> p]
NotObj(x) == [isdict |-> FALSE, city |-> Missing, pincode |-> x]

\* a position p of s where r"\b\d{6}\b" matches
PincodeAt(s, p) ==
    /\ p >= 1 /\ p + 5 <= Len(s)
    /\ \A h \in p..(p + 5) : IsDigit(s[h])
    /\ (p = 1 \/ ~IsWord(s[p - 1]))
    /\ (p + 5 = Len(s) \/ ~IsWord(s[p + 6]))

\* the scan of re.search from offset p on
RECURSIVE SearchPincodeFrom(_, _)
SearchPincodeFrom(s, p) ==
    IF p + 5 > Len(s) THEN <<>>
    ELSE IF PincodeAt(s, p) THEN SubSeq(s, p, p + 5)
    ELSE SearchPincodeFrom(s, p + 1)

\* A blank Address cell of the input file: pd.read_csv gives the float NaN
\* for it, which is no text. It is written as a one-element sequence whose
\* element is no character.
NaN == <<"NaN">>

\* what stands for the TypeError re.search raises when given a value that is
\* no text
TypeError == <<"TypeError">>

\* m = re.search(r"\b\d{6}\b", addr_text); m.group(0) if m else "N/A"
RegexPincode(addr_text) ==
    IF addr_text = NaN THEN TypeError
    ELSE IF SearchPincodeFrom(addr_text, 1) # <<>>
    THEN SearchPincodeFrom(addr_text, 1) ELSE NA

\* the per-address fallback list built for a batch
FallbackFor(batch) ==
    [k \in DOMAIN batch |-> Obj(JStr(NA), JStr(RegexPincode(batch[k])))]

\* the loop that builds the fallback list raises at one of the addresses
FallbackRaises(batch) ==
    \E k \in DOMAIN batch : RegexPincode(batch[k]) = TypeError

Placeholder == Obj(JStr(NA), JStr(NA))

\* a variant that pads a short list but keeps a long one whole
NormalizeLength_no_truncate(batch_data, n) ==
    IF Len(batch_data) < n
    THEN batch_data \o [k \in 1..(n - Len(batch_data)) |-> Placeholder]
    ELSE batch_data

\* "Normalize length: ensure one result per input address"
NormalizeLength(batch_data, n) ==
    IF Len(batch_data) < n
    THEN batch_data \o [k \in 1..(n - Len(batch_data)) |-> Placeholder]
    ELSE IF Len(batch_data) > n THEN SubSeq(batch_data, 1, n)
    ELSE batch_data

\* What one provider call comes to, as the code sees it:
\*   raises       the call, or reading the response, raises
\*   no_json      no text to parse is found (json_text is None or empty)
\*   unparseable  json.loads raises
\*   not_a_list   json.loads returns something that is no list
\*   list         json.loads returns the list in field data
BatchResult(batch, resp) ==
    IF resp.kind = "raises" THEN FallbackFor(batch)
    ELSE LET batch_data ==
                 IF resp.kind \in {"unparseable", "not_a_list"} THEN FallbackFor(batch)
                 ELSE IF resp.kind = "no_json" THEN <<>>
                 ELSE resp.data
         IN NormalizeLength(batch_data, Len(batch))

\* the iteration for this batch raises: the fallback of lines 81-86 runs inside
\* the handler of the inner try and re-enters the outer handler, whose own
\* fallback (lines 99-103) raises in the same way with nothing left to catch it
BatchRaises(batch, resp) ==
    /\ resp.kind \in {"raises", "unparseable", "not_a_list"}
    /\ FallbackRaises(batch)

\* is_valid_pincode
is_valid_pincode(p) ==
    /\ p.t = "str"
    /\ Len(p.v) = 6
    /\ \A h \in DOMAIN p.v : IsDigit(p.v[h])

\* a variant of the final pass that trusts the pincode it is given
FinalPincode_unvalidated(res, addr) ==
    IF res.isdict /\ res.pincode.t # "missing" THEN res.pincode ELSE JStr(<<>>)

\* the final pass, one record: res.get('pincode', '') revalidated against addr
FinalPincode(res, addr) ==
    LET pincode == IF res.isdict /\ res.pincode.t # "missing"
                   THEN res.pincode ELSE JStr(<<>>)
    IN IF ~is_valid_pincode(pincode) THEN JStr(RegexPincode(addr)) ELSE pincode

\* the final pass raises at this record (line 125, outside every try)
FinalRaises(res, addr) == FinalPincode(res, addr) = JStr(TypeError)

\* res.get('city', 'N/A') if isinstance(res, dict) else 'N/A'
FinalCity(res) ==
    IF res.isdict /\ res.city.t # "missing" THEN res.city ELSE JStr(NA)

\* all_results[idx] if idx < len(all_results) else {}
ResultAt(results, k) ==
    IF k <= Len(results) THEN results[k] ELSE Obj(Missing, Missing)

(* the inputs *)
MaxAddr == 21
AddrPool == <<
    <<"K","o","i","l","w","a","r"," ","8","0","2","1","2","1">>,
    <<"W","a","r","d"," ","5"," ","A","r","r","a","h">>,
    <<"P","I","N","8","0","2","3","0","1"," ","x">>,
    <<"1","2","3","4","5","6","7"," ","1","1","0","0","0","1">>,
    <<"9","9",",","5","6","0","0","0","1",",","5","6","0","0","0","2">> >>
EntryPool == <<
    Obj(JStr(<<"K","o","i","l","w","a","r">>), JStr(<<"8","0","2","1","2","1">>)),
    Obj(JStr(<<"A","r","r","a","h">>), JNum(<<"8","0","2","3","0","1">>)),
    Obj(JStr(<<"P","a","t","n","a">>), JStr(<<"8","0","2","1">>)),
    NotObj(JStr(<<"o","o","p","s">>)),
    Obj(JStr(<<"P","a","t","n","a">>), Missing),
    Obj(Missing, JStr(<<"8","0","2","1","2","1"," ">>)),
    Obj(JNull, JNull) >>

ListLengths(n) == {m \in {0, 1, n - 1, n, n + 1} : m >= 0}

Responses(n) ==
    {[kind |-> k, data |-> <<>>] :
        k \in {"raises", "no_json", "unparseable", "not_a_list"}}
    \cup {[kind |-> "list", data |-> Cycle(EntryPool, m, sh)] :
            m \in ListLengths(n), sh \in 0..(Len(EntryPool) - 1)}

\* where the blank cell may be: first or last of the column, or around the
\* boundary of the first batch
BlankPositions(n) == {p \in {1, batch_size, batch_size + 1, n} : p <= n}

\* the Address column: texts, of which at most one cell is blank
AddressLists ==
    {Cycle(AddrPool, n, sh) : n \in 0..MaxAddr, sh \in 0..(Len(AddrPool) - 1)}
    \cup UNION {{[Cycle(AddrPool, n, sh) EXCEPT ![p] = NaN] :
                    sh \in 0..(Len(AddrPool) - 1), p \in BlankPositions(n)} :
                 n \in 1..MaxAddr}

InitAddr ==
    /\ addresses \in AddressLists
    /\ batch_i = 0 /\ all_results = <<>> /\ a_pc = "batch"
    /\ provider_log = <<>> /\ cities = <<>> /\ pincodes = <<>>
    /\ IdleFn /\ IdleMatcher

Min(a, b) == IF a < b THEN a ELSE b

\* addresses[i : i + batch_size]
BatchAt(i) == SubSeq(addresses, i + 1, Min(i + batch_size, Len(addresses)))

\* one iteration of the loop over batches
ProcessBatch ==
    /\ a_pc = "batch"
    /\ batch_i < Len(addresses)
    /\ \E resp \in Responses(Len(BatchAt(batch_i))) :
          /\ ~BatchRaises(BatchAt(batch_i), resp)
          /\ all_results' = all_results \o BatchResult(BatchAt(batch_i), resp)
          /\ provider_log' = Append(provider_log, resp)
    /\ batch_i' = batch_i + batch_size
    /\ UNCHANGED <<addresses, a_pc, cities, pincodes, fn_vars, m_vars>>

\* the iteration raises in its fallback: the exception leaves
\* process_address_batches, nothing is appended and no file is written
BatchAborts ==
    /\ a_pc = "batch"
    /\ batch_i < Len(addresses)
    /\ \E resp \in Responses(Len(BatchAt(batch_i))) :
          /\ BatchRaises(BatchAt(batch_i), resp)
          /\ provider_log' = Append(provider_log, resp)
    /\ a_pc' = "raised"
    /\ UNCHANGED <<addresses, batch_i, all_results, cities, pincodes, fn_vars, m_vars>>

\* the final validation pass and the two columns written
FinalPass ==
    /\ a_pc = "batch"
    /\ batch_i >= Len(addresses)
    /\ \A k \in DOMAIN addresses : ~FinalRaises(ResultAt(all_results, k), addresses[k])
    /\ cities' = [k \in DOMAIN addresses |-> FinalCity(ResultAt(all_results, k))]
    /\ pincodes' = [k \in DOMAIN addresses |->
                       FinalPincode(ResultAt(all_results, k), addresses[k])]
    /\ a_pc' = "done"
    /\ UNCHANGED <<addresses, batch_i, all_results, provider_log, fn_vars, m_vars>>

\* the final pass raises at a record whose pincode is invalid and whose
\* address is no text: no column is set and no file is written
FinalAborts ==
    /\ a_pc = "batch"
    /\ batch_i >= Len(addresses)
    /\ \E k \in DOMAIN addresses : FinalRaises(ResultAt(all_results, k), addresses[k])
    /\ a_pc' = "raised"
    /\ UNCHANGED <<addresses, batch_i, all_results, provider_log, cities, pincodes,
                   fn_vars, m_vars>>

NextAddr == ProcessBatch \/ BatchAborts \/ FinalPass \/ FinalAborts

SpecAddr == InitAddr /\ [][NextAddr]_vars

\* the batch address k belongs to, and its position in that batch
BatchOf(k) == ((k - 1) \div 20) + 1
PosInBatch(k) == k - 20 * (BatchOf(k) - 1)

SixDigits(v) == Len(v) = 6 /\ \A h \in DOMAIN v : v[h] \in Digit

\* C5: whatever the provider did, every Pincode written is "N/A" or a string
\* of exactly six decimal digits, one per input address.
C5_PincodeSentinelOrSixDigits ==
    a_pc = "done" =>
      /\ Len(pincodes) = Len(addresses)
      /\ \A k \in DOMAIN pincodes :
            /\ pincodes[k].t = "str"
            /\ (pincodes[k].v = <<"N","/","A">> \/ SixDigits(pincodes[k].v))

\* a provider entry with a numeric pincode was replaced, a valid one was kept
C5_Witness ==
    /\ a_pc = "done"
    /\ \E k \in DOMAIN pincodes :
          /\ all_results[k].pincode.t = "num"
          /\ pincodes[k] = JStr(<<"N","/","A">>)
    /\ \E k \in DOMAIN pincodes :
          /\ all_results[k].pincode = JStr(<<"8","0","2","1","2","1">>)
          /\ pincodes[k] = all_results[k].pincode
          /\ provider_log[BatchOf(k)].kind = "list"

\* the start positions of the standalone 6-digit runs of s: six digits with
\* no letter, digit or underscore directly before or after
StandaloneRuns(s) ==
    {p \in 1..(Len(s) - 5) :
        /\ \A h \in 0..5 : s[p + h] \in Digit
        /\ (p > 1 => s[p - 1] \notin Word)
        /\ (p + 5 < Len(s) => s[p + 6] \notin Word)}

FirstStandaloneRun(s) ==
    IF StandaloneRuns(s) = {} THEN <<"N","/","A">>
    ELSE LET p == CHOOSE q \in StandaloneRuns(s) :
                     \A r \in StandaloneRuns(s) : q <= r
         IN SubSeq(s, p, p + 5)

\* C6: when the call raises for a batch, or its response does not parse as a
\* JSON list, every address of the batch gets City "N/A" and as Pincode the
\* first standalone 6-digit run of its text, "N/A" when it has none: the run
\* does not end without having written them.
C6_FallbackOnProviderFailure ==
    \A k \in DOMAIN addresses :
       (/\ BatchOf(k) <= Len(provider_log)
        /\ provider_log[BatchOf(k)].kind
               \in {"raises", "no_json", "unparseable", "not_a_list"}) =>
          /\ a_pc # "raised"
          /\ a_pc = "done" =>
                /\ cities[k] = JStr(<<"N","/","A">>)
                /\ pincodes[k] = JStr(FirstStandaloneRun(addresses[k]))

\* the entry the batch of address k produced for k's position
ProducedFor(k) ==
    LET resp == provider_log[BatchOf(k)]
        j == PosInBatch(k)
    IN IF resp.kind = "list" /\ j <= Len(resp.data) THEN resp.data[j]
       ELSE IF resp.kind \in {"list", "no_json"}
            THEN Obj(JStr(<<"N","/","A">>), JStr(<<"N","/","A">>))
       ELSE Obj(JStr(<<"N","/","A">>), JStr(FirstStandaloneRun(addresses[k])))

\* C7: after each batch the accumulated list has exactly one entry per address
\* consumed so far, entry k being the one produced for address k's position in
\* its batch; at the end there is one (City, Pincode) per address, in order.
C7_OneResultPerAddressInOrder ==
    /\ a_pc \in {"batch", "done"} =>
          /\ Len(all_results) = Min(batch_i, Len(addresses))
          /\ Len(provider_log) * 20 = batch_i
          /\ \A k \in DOMAIN all_results : all_results[k] = ProducedFor(k)
    /\ a_pc = "done" =>
          /\ Len(all_results) = Len(addresses)
          /\ DOMAIN cities = DOMAIN addresses
          /\ DOMAIN pincodes = DOMAIN addresses
          /\ \A k \in DOMAIN addresses :
                /\ cities[k] = FinalCity(all_results[k])
                /\ pincodes[k] = FinalPincode(all_results[k], addresses[k])

\* two batches, the first answered with one entry too many, the second with none
C7_Witness ==
    /\ a_pc = "done"
    /\ Len(addresses) > 20
    /\ provider_log[1].kind = "list" /\ Len(provider_log[1].data) = 21
    /\ provider_log[2].kind = "list" /\ Len(provider_log[2].data) = 0
    /\ Len(all_results) = Len(addresses)

-----------------------------------------------------------------------------
(* extract2.py: search_myneta_for_candidate, the evaluation of one row *)

Cand(n, c, y) == [Name |-> n, Constituency |-> c, Year |-> y]

\* what get_attribute("href") of the row's first link does: returns a value,
\* returns None, or raises
Href(v) == [state |-> "value", v |-> v]
HrefNone == [state |-> "none", v |-> <<>>]
HrefRaises == [state |-> "raises", v |-> <<>>]

\* A row of the results table. kind is "ok" for a row with at least four
\* cells and a link, "short" for fewer than four cells, "no_anchor" for no
\* link, "stale" for a row whose cells raise when read.
Row(a, c3, c4, h) == [kind |-> "ok", a_text |-> a, td3 |-> c3, td4 |-> c4, href |-> h]
BadRow(k) == [kind |-> k, a_text |-> <<>>, td3 |-> <<>>, td4 |-> <<>>, href |-> HrefNone]

\* a variant whose threshold test is strict
name_ok_strict(name_norm, cname) ==
    Contains(cname, name_norm)
        \/ 100 * similar(name_norm, cname).num > 70 * similar(name_norm, cname).den

\* name match: exact substring OR fuzzy match above threshold
name_ok(name_norm, cname) ==
    Contains(cname, name_norm) \/ AtLeastThreshold(similar(name_norm, cname))

\* constituency match: empty is allowed, otherwise substring or shared token
const_ok(const_norm, cconst) ==
    IF const_norm = <<>> THEN TRUE
    ELSE IF Contains(cconst, const_norm) THEN TRUE
    ELSE Tokens(const_norm) \cap Tokens(cconst) # {}

\* year match: a year that is present must appear in the election column
year_ok(yr, election_raw) ==
    IF yr # <<>> THEN Contains(election_raw, yr) ELSE TRUE

\* one pass of the loop body of lines 221-255: "skip" for continue, else
\* whether the row is accepted
EvaluateRow(name_norm, const_norm, yr, r) ==
    IF r.kind # "ok" THEN "skip"
    ELSE LET cname_raw == strip(r.a_text)
             cconst_raw == strip(r.td3)
             election_raw == strip(r.td4)
             cname == normalize_text(cname_raw)
             cconst == normalize_text(cconst_raw)
         IN IF /\ name_ok(name_norm, cname)
               /\ const_ok(const_norm, cconst)
               /\ year_ok(yr, election_raw)
            THEN "accept" ELSE "reject"

(* Specification of the row evaluation: one row against one candidate *)

AcceptCands == {
    Cand(<<"R","a","m"," ","K","u","m","a","r">>, <<"P","a","t","n","a">>, <<"2","0","2","0">>),
    Cand(<<"R","a","m"," ","K","u","m","a","r">>, <<>>, <<>>),
    Cand(<<"S","i","t","a"," ","D","e","v","i">>, <<"A","r","r","a","h"," ","T","o","w","n">>, <<"2","0","1","5">>),
    Cand(<<"R","."," ","K","u","m","a","r","!">>, <<"!","!">>, <<"2","0","2","0">>),
    Cand(<<"a","b","c","d","e","f","g","h","i","j">>, <<"G","a","y","a">>, <<>>),
    Cand(<<>>, <<"P","a","t","n","a">>, <<"2","0","2","0">>) }
AcceptRows == {
    Row(<<"R","a","m"," ","K","u","m","a","r"," ","S","i","n","g","h">>,
        <<"P","a","t","n","a"," ","S","a","h","i","b">>, <<"2","0","2","0"," ","G","e","n","e","r","a","l">>, Href(<<"/","c","a","n","d","i","d","a","t","e",".","p","h","p","?","i","d","=","1">>)),
    Row(<<"R","A","M"," ","K","U","M","A","R">>,
        <<"P","A","T","N","A">>, <<"B","i","h","a","r"," ","2","0","1","5">>, Href(<<"c","a","n","d","i","d","a","t","e",".","p","h","p","?","i","d","=","2">>)),
    Row(<<"R","a","m","a"," ","K","u","m","a","r","i">>,
        <<"P","a","t","n","a"," ","C","i","t","y">>, <<"2","0","2","0">>, Href(<<"h","t","t","p","s",":","/","/","w","w","w",".","m","y","n","e","t","a",".","i","n","f","o","/","c","3">>)),
    Row(<<"R","a","m"," ","K","u","m","a","r">>,
        <<"A","r","r","a","h">>, <<"2","0","2","0">>, Href(<<"/","c","4">>)),
    Row(<<"S","i","t","a"," ","D","e","v","i">>,
        <<"T","o","w","n"," ","H","a","l","l",","," ","A","r","r","a","h">>, <<"B","i","h","a","r"," ","2","0","1","5">>, Href(<<"/","c","5">>)),
    Row(<<"a","b","c","d","e","f","g","x","y","z">>,
        <<"G","a","y","a"," ","T","o","w","n">>, <<"2","0","1","9">>, Href(<<"/","c","6">>)),
    Row(<<"a","b","c","d","e","f","w","x","y","z">>,
        <<"G","a","y","a">>, <<"2","0","1","9">>, Href(<<"/","c","7">>)),
    Row(<<"M","o","h","a","n"," ","L","a","l">>,
        <<"S","i","w","a","n">>, <<"2","0","2","0">>, Href(<<"/","c","8">>)),
    Row(<<"S","i","t","a"," ","D","e","v","i">>,
        <<"A","r","r","a","h","t","o","w","n">>, <<"2","0","1","5"," ">>, Href(<<"/","c","9">>)),
    Row(<<"R","a","m"," "," ","K","u","m","a","r">>,
        <<>>, <<>>, Href(<<"/","c","1","0">>)),
    BadRow("short"), BadRow("no_anchor"), BadRow("stale") }

InitAccept ==
    /\ fn_pc = "call" /\ fn_ret = NoValue
    /\ fn_arg \in [cand : AcceptCands, row : AcceptRows]
    /\ IdleMatcher /\ IdleAddr

CallEvaluateRow ==
    /\ fn_pc = "call"
    /\ fn_ret' = EvaluateRow(normalize_text(fn_arg.cand.Name),
                             normalize_text(fn_arg.cand.Constituency),
                             fn_arg.cand.Year, fn_arg.row)
    /\ fn_pc' = "done"
    /\ UNCHANGED <<fn_arg, m_vars, a_vars>>

NextAccept == CallEvaluateRow

SpecAccept == InitAccept /\ [][NextAccept]_vars

ExampleCand == Cand(<<"R","a","m"," ","K","u","m","a","r">>, <<"P","a","t","n","a">>, <<"2","0","2","0">>)
ExampleRow == Row(<<"R","a","m"," ","K","u","m","a","r"," ","S","i","n","g","h">>, <<"P","a","t","n","a"," ","S","a","h","i","b">>, <<"2","0","2","0"," ","G","e","n","e","r","a","l">>, Href(<<"/","c","a","n","d","i","d","a","t","e",".","p","h","p","?","i","d","=","1">>))

\* the acceptance rule for candidate c and a row showing DisplayName dn,
\* ConstituencyText ct and ElectionLabel el
NameRule(c, dn) ==
    \/ Contains(normalize_text(dn), normalize_text(c.Name))
    \/ 10 * similar(normalize_text(c.Name), normalize_text(dn)).num
           >= 7 * similar(normalize_text(c.Name), normalize_text(dn)).den
ConstRule(c, ct) ==
    \/ c.Constituency = <<>>
    \/ Contains(normalize_text(ct), normalize_text(c.Constituency))
    \/ \E t \in Tokens(normalize_text(c.Constituency)) : t \in Tokens(normalize_text(ct))
YearRule(c, el) ==
    c.Year = <<>> \/ Contains(el, c.Year)

\* C3: a row is accepted exactly when the name rule (substring or similarity
\* >= 0.70), the constituency rule (empty, substring or shared token) and the
\* year rule (empty or verbatim in the election label) all hold; the example
\* {Ram Kumar, Patna, 2020} against {Ram Kumar Singh, Patna Sahib, 2020 General}
\* is accepted.
C3_RowAcceptedExactlyWhen ==
    (fn_pc = "done" /\ fn_arg.row.kind = "ok") =>
      /\ (fn_ret = "accept") <=>
            /\ NameRule(fn_arg.cand, fn_arg.row.a_text)
            /\ ConstRule(fn_arg.cand, fn_arg.row.td3)
            /\ YearRule(fn_arg.cand, fn_arg.row.td4)
      /\ fn_ret \in {"accept", "reject"}
      /\ (fn_arg.cand = ExampleCand /\ fn_arg.row = ExampleRow) => fn_ret = "accept"

C3_Witness ==
    /\ fn_pc = "done"
    /\ fn_arg.cand = ExampleCand
    /\ fn_arg.row = ExampleRow
    /\ fn_ret = "accept"
    /\ <<"p","a","t","n","a">> \in Tokens(normalize_text(ExampleRow.td3))

-----------------------------------------------------------------------------
(* extract2.py: search_myneta_for_candidate and the loop over candidates *)

max_retries == 3
StabilizeRounds == 6

SiteOrigin == <<"h","t","t","p","s",":","/","/","w","w","w",".","m","y","n","e","t","a",".","i","n","f","o">>

\* link = href; a link starting with "/" gets the origin prefixed; link or ""
ResolveLink(h) ==
    IF h.state = "none" \/ h.v = <<>> THEN <<>>
    ELSE IF h.v[1] = "/" THEN SiteOrigin \o h.v
    ELSE h.v

\* the arguments of the current call
name == candidates[cand_i].Name
constituency == candidates[cand_i].Constituency
year == candidates[cand_i].Year

\* MYNETA_URL + "search.php?q=" + quote_plus(q); quote_plus is one-to-one, so
\* the URL is identified by the text it encodes
SearchUrl(q) == [page |-> "search.php", q |-> q]
NameUrl == SearchUrl(name)
BroadUrl == SearchUrl(name \o <<" ">> \o constituency)

(* the inputs *)
MaxRows == 2
MaxCandidates == 2
MatcherCands == <<
    ExampleCand,
    Cand(<<"R","a","m"," ","K","u","m","a","r">>, <<>>, <<>>) >>
MatcherRows == <<
    ExampleRow,
    Row(<<"R","a","m"," ","K","u","m","a","r">>, <<"P","a","t","n","a">>,
        <<"2","0","2","0">>, Href(<<"c","2">>)),
    Row(<<"R","A","M"," ","K","U","M","A","R">>, <<"A","r","r","a","h">>,
        <<"2","0","1","5">>, HrefRaises),
    BadRow("stale"),
    Row(<<"R","a","m"," ","K","u","m","a","r"," ","J","h","a">>, <<"G","a","y","a">>,
        <<"2","0","1","9">>, HrefNone) >>

\* the result sets the site may show: up to MaxRows consecutive rows of the
\* pool, from any start
RowSets ==
    {Cycle(MatcherRows, k, sh) : k \in 0..MaxRows, sh \in 0..(Len(MatcherRows) - 1)}
NonEmptyRowSets == RowSets \ {<<>>}

IsPrefix(p, q) == Len(p) <= Len(q) /\ SubSeq(q, 1, Len(p)) = p

\* the table after one more rendering step: unchanged, a row added, or the
\* last row gone
Rendered(rows) ==
    {r \in RowSets :
        \/ r = rows
        \/ Len(r) = Len(rows) + 1 /\ IsPrefix(rows, r)
        \/ Len(r) + 1 = Len(rows) /\ IsPrefix(r, rows)}

InitMatcher ==
    /\ \E k \in 1..MaxCandidates, sh \in 0..(Len(MatcherCands) - 1) :
          candidates = Cycle(MatcherCands, k, sh)
    /\ cand_i = 0 /\ neta_links = <<>>
    /\ pc = "loop" /\ attempt = 0 /\ tried_urls = {}
    /\ page_rows = <<>> /\ page_query = "home"
    /\ rows_n = 0 /\ row_i = 0 /\ verdicts = <<>> /\ stab_k = 0
    /\ result = <<>> /\ backoffs = <<>> /\ broadened = FALSE /\ rows_seen = FALSE
    /\ IdleFn /\ IdleAddr

\* a variant that allows one attempt more
AttemptsRemain_one_more(a) == a <= max_retries

\* for attempt in range(1, max_retries + 1): is there a next iteration?
AttemptsRemain(a) == a < max_retries

\* `continue`, or the end of the loop body: the next attempt, or line 278
ContinueLoop ==
    IF AttemptsRemain(attempt)
    THEN /\ attempt' = attempt + 1
         /\ pc' = "search"
         /\ result' = result
    ELSE /\ attempt' = attempt
         /\ pc' = "returned"
         /\ result' = <<>>

\* time.sleep(1 + attempt)
Sleep == backoffs' = Append(backoffs, 1 + attempt)

\* line 282: the call for the next candidate
CallMatcher ==
    /\ pc = "loop"
    /\ cand_i < Len(candidates)
    /\ cand_i' = cand_i + 1
    /\ attempt' = 1 /\ tried_urls' = {}
    /\ pc' = "search"
    /\ rows_n' = 0 /\ row_i' = 0 /\ verdicts' = <<>> /\ stab_k' = 0
    /\ result' = <<>> /\ backoffs' = <<>> /\ broadened' = FALSE /\ rows_seen' = FALSE
    /\ UNCHANGED <<candidates, neta_links, page_rows, page_query, fn_vars, a_vars>>

\* lines 174-188: the query through the search box; every failure is swallowed
SearchBox ==
    /\ pc = "search"
    /\ \/ \E rows \in RowSets :
             /\ page_rows' = rows
             /\ page_query' = "name"
       \/ UNCHANGED <<page_rows, page_query>>
       \/ /\ page_rows' = <<>>
          /\ page_query' = "home"
    /\ pc' = "wait"
    /\ UNCHANGED <<broadened, candidates, cand_i, neta_links, attempt, tried_urls, rows_n,
                   row_i, verdicts, stab_k, result, backoffs, rows_seen,
                   fn_vars, a_vars>>

\* line 192: the wait for the results table finds rows
WaitFindsRows ==
    /\ pc = "wait"
    /\ page_rows # <<>>
    /\ pc' = "stabilize"
    /\ stab_k' = 0
    /\ rows_seen' = TRUE
    /\ UNCHANGED <<candidates, cand_i, neta_links, attempt, tried_urls, page_rows,
                   page_query, rows_n, row_i, verdicts, result, backoffs, broadened,
                   fn_vars, a_vars>>

\* lines 193-208: the wait times out or fails
WaitFails ==
    /\ pc = "wait"
    /\ IF NameUrl \notin tried_urls
       THEN /\ tried_urls' = tried_urls \cup {NameUrl}
            /\ pc' = "direct"
            /\ UNCHANGED <<attempt, result, backoffs>>
       ELSE /\ Sleep
            /\ ContinueLoop
            /\ UNCHANGED tried_urls
    /\ UNCHANGED <<candidates, cand_i, neta_links, page_rows, page_query, rows_n,
                   row_i, verdicts, stab_k, broadened, rows_seen, fn_vars, a_vars>>

\* lines 199-201: the direct search URL shows rows
DirectFindsRows ==
    /\ pc = "direct"
    /\ \E rows \in NonEmptyRowSets : page_rows' = rows
    /\ page_query' = "name"
    /\ pc' = "stabilize"
    /\ stab_k' = 0
    /\ rows_seen' = TRUE
    /\ UNCHANGED <<candidates, cand_i, neta_links, attempt, tried_urls, rows_n,
                   row_i, verdicts, result, backoffs, broadened, fn_vars, a_vars>>

\* lines 202-205: the direct search fails, in goto or in the wait
DirectFails ==
    /\ pc = "direct"
    /\ \/ UNCHANGED <<page_rows, page_query>>
       \/ /\ page_rows' = <<>>
          /\ page_query' = "name"
    /\ Sleep
    /\ ContinueLoop
    /\ UNCHANGED <<broadened, candidates, cand_i, neta_links, tried_urls, rows_n, row_i,
                   verdicts, stab_k, rows_seen, fn_vars, a_vars>>

\* lines 211-220: one round of the stabilisation loop; on leaving it, the
\* row count of line 220
Stabilize ==
    /\ pc = "stabilize"
    /\ \E rows \in Rendered(page_rows) :
          /\ page_rows' = rows
          /\ IF Len(page_rows) = Len(rows) \/ stab_k + 1 = StabilizeRounds
             THEN /\ pc' = "evaluate"
                  /\ rows_n' = Len(rows)
                  /\ row_i' = 0
                  /\ verdicts' = <<>>
                  /\ stab_k' = stab_k
             ELSE /\ stab_k' = stab_k + 1
                  /\ UNCHANGED <<pc, rows_n, row_i, verdicts>>
    /\ UNCHANGED <<candidates, cand_i, neta_links, attempt, tried_urls, page_query,
                   result, backoffs, broadened, rows_seen, fn_vars, a_vars>>

\* the exception leaves the function: its locals are gone
Unwind ==
    /\ pc' = "raised"
    /\ attempt' = 0 /\ tried_urls' = {}
    /\ rows_n' = 0 /\ row_i' = 0 /\ verdicts' = <<>> /\ stab_k' = 0
    /\ result' = <<>> /\ backoffs' = <<>> /\ broadened' = FALSE
    /\ UNCHANGED rows_seen

\* rows.count() or the 300 ms wait raises: nothing catches it
StabilizeRaises ==
    /\ pc = "stabilize"
    /\ Unwind
    /\ UNCHANGED <<candidates, cand_i, neta_links, page_rows, page_query,
                   fn_vars, a_vars>>

\* a variant that walks the rows from the last to the first
RowAt_reversed(rows, i) == rows[Len(rows) - i]

\* r = rows.nth(i)
RowAt(rows, i) == rows[i + 1]

\* lines 221-259: the loop body for row i, which rejects or skips the row
\* or returns its link
EvalRow ==
    /\ pc = "evaluate"
    /\ row_i < rows_n
    /\ LET r == RowAt(page_rows, row_i)
           v == EvaluateRow(normalize_text(name), normalize_text(constituency), year, r)
       IN /\ ~(v = "accept" /\ r.href.state = "raises")
          /\ verdicts' = Append(verdicts, v)
          /\ IF v = "accept"
             THEN /\ result' = ResolveLink(r.href)
                  /\ pc' = "returned"
                  /\ UNCHANGED row_i
             ELSE /\ row_i' = row_i + 1
                  /\ UNCHANGED <<pc, result>>
    /\ UNCHANGED <<candidates, cand_i, neta_links, attempt, tried_urls, page_rows,
                   page_query, rows_n, stab_k, backoffs, broadened, rows_seen,
                   fn_vars, a_vars>>

\* line 256: the row is accepted and reading its href raises: nothing catches it
HrefRaisesUncaught ==
    /\ pc = "evaluate"
    /\ row_i < rows_n
    /\ LET r == RowAt(page_rows, row_i)
       IN /\ EvaluateRow(normalize_text(name), normalize_text(constituency), year, r)
                = "accept"
          /\ r.href.state = "raises"
    /\ Unwind
    /\ UNCHANGED <<candidates, cand_i, neta_links, page_rows, page_query,
                   fn_vars, a_vars>>

\* lines 262-270: no row matched on attempt 1; the broadened query shows rows
BroadenFindsRows ==
    /\ pc = "evaluate"
    /\ row_i = rows_n
    /\ attempt = 1 /\ constituency # <<>> /\ BroadUrl \notin tried_urls
    /\ tried_urls' = tried_urls \cup {BroadUrl}
    /\ \E rows \in NonEmptyRowSets : page_rows' = rows
    /\ page_query' = "broad"
    /\ broadened' = TRUE
    /\ rows_seen' = TRUE
    /\ ContinueLoop
    /\ UNCHANGED <<candidates, cand_i, neta_links, rows_n, row_i, verdicts, stab_k,
                   backoffs, fn_vars, a_vars>>

\* lines 262-275: no row matched; the broadened query is not tried or fails
NoMatchBackoff ==
    /\ pc = "evaluate"
    /\ row_i = rows_n
    /\ IF attempt = 1 /\ constituency # <<>> /\ BroadUrl \notin tried_urls
       THEN /\ tried_urls' = tried_urls \cup {BroadUrl}
            /\ \/ UNCHANGED <<page_rows, page_query>>
               \/ /\ page_rows' = <<>>
                  /\ page_query' = "broad"
       ELSE UNCHANGED <<tried_urls, page_rows, page_query>>
    /\ Sleep
    /\ ContinueLoop
    /\ UNCHANGED <<broadened, candidates, cand_i, neta_links, rows_n, row_i, verdicts, stab_k,
                   rows_seen, fn_vars, a_vars>>

\* line 283: c["neta_link"] = link or ""; the locals of the call are gone
StoreLink ==
    /\ pc = "returned"
    /\ neta_links' = Append(neta_links, result)
    /\ pc' = "loop"
    /\ attempt' = 0 /\ tried_urls' = {}
    /\ rows_n' = 0 /\ row_i' = 0 /\ verdicts' = <<>> /\ stab_k' = 0
    /\ result' = <<>> /\ backoffs' = <<>> /\ broadened' = FALSE /\ rows_seen' = FALSE
    /\ UNCHANGED <<candidates, cand_i, page_rows, page_query, fn_vars, a_vars>>

\* lines 292-300: all candidates done, the CSV is written
SaveCsv ==
    /\ pc = "loop"
    /\ cand_i = Len(candidates)
    /\ pc' = "saved"
    /\ UNCHANGED <<candidates, cand_i, neta_links, attempt, tried_urls, page_rows,
                   page_query, rows_n, row_i, verdicts, stab_k, result, backoffs,
                   broadened, rows_seen, fn_vars, a_vars>>

NextMatcher ==
    \/ CallMatcher \/ SearchBox \/ WaitFindsRows \/ WaitFails
    \/ DirectFindsRows \/ DirectFails \/ Stabilize \/ StabilizeRaises
    \/ EvalRow \/ HrefRaisesUncaught \/ BroadenFindsRows \/ NoMatchBackoff \/ StoreLink \/ SaveCsv

SpecMatcher == InitMatcher /\ [][NextMatcher]_vars

\* C1: when no wait for the results table ever finds a row, the call makes at
\* most max_retries (3) attempts, raises nothing and returns the empty string.
C1_NoRowsReturnsUnmatched ==
    /\ attempt <= 3
    /\ (pc = "returned" /\ ~rows_seen) => (result = <<>> /\ attempt = 3)
    /\ (pc = "raised") => rows_seen

C1_Witness ==
    /\ pc = "returned"
    /\ ~rows_seen
    /\ attempt = 3
    /\ result = <<>>
    /\ page_rows = <<>>

\* the candidate of the current call satisfies all three rules on row r
Eligible(r) ==
    /\ r.kind = "ok"
    /\ NameRule(candidates[cand_i], r.a_text)
    /\ ConstRule(candidates[cand_i], r.td3)
    /\ YearRule(candidates[cand_i], r.td4)

\* link is what the row's href comes to: nothing, the href itself, or the
\* href on the site origin
IsLinkOf(link, r) ==
    \/ r.href.state = "none" /\ link = <<>>
    \/ r.href.state = "value" /\ link = r.href.v
    \/ r.href.state = "value" /\ link = SiteOrigin \o r.href.v

\* C2: the URL returned is that of the first row, in original order, that
\* satisfies the name, constituency and year rules; no row is passed over
\* while eligible, and no later row is chosen over an earlier eligible one.
C2_FirstEligibleRowWins ==
    /\ pc = "evaluate" =>
          \A j \in 1..row_i : ~Eligible(page_rows[j])
    /\ (pc = "returned" /\ verdicts # <<>> /\ verdicts[Len(verdicts)] = "accept") =>
          LET i == Len(verdicts)
          IN /\ Eligible(page_rows[i])
             /\ \A j \in 1..(i - 1) : ~Eligible(page_rows[j])
             /\ IsLinkOf(result, page_rows[i])
             /\ \A j \in (i + 1)..Len(page_rows) :
                   page_rows[j].href # page_rows[i].href => ~IsLinkOf(result, page_rows[j])

\* the first row is returned although the second, also eligible, is the more
\* similar one
C2_Witness ==
    /\ pc = "returned"
    /\ Len(page_rows) = 2
    /\ page_rows[1] = ExampleRow
    /\ Eligible(page_rows[2])
    /\ similar(normalize_text(name), normalize_text(page_rows[2].a_text)).num
          * similar(normalize_text(name), normalize_text(page_rows[1].a_text)).den
       > similar(normalize_text(name), normalize_text(page_rows[1].a_text)).num
          * similar(normalize_text(name), normalize_text(page_rows[2].a_text)).den
    /\ result = SiteOrigin \o ExampleRow.href.v

\* C4: a transient failure at any step of an attempt is caught and counted as
\* "no rows found"; no exception leaves the matcher or ends the candidate loop.
C4_FailuresNeverPropagate == pc # "raised"

-----------------------------------------------------------------------------
(* Specification of normalize_text: one call on each tested text, then a    *)
(* second call on what the first returned                                    *)

MaxNormLen == 3
NormAlphabet == {"a", "A", "b", " ", "\t", "!", "_", CapitalIDot, CombiningDot}
ExampleNormText == <<"R","a","m"," ","K","u","m","a","r","!">>

NormTexts ==
    TextsUpTo(NormAlphabet, MaxNormLen)
    \cup {ExampleNormText, <<" ","R","A","M"," "," ","k","u","m","a","r",".","\n">>}

InitNorm ==
    /\ fn_pc = "call" /\ fn_arg \in NormTexts /\ fn_ret = NoValue
    /\ IdleMatcher /\ IdleAddr

CallNormalize ==
    /\ fn_pc = "call"
    /\ fn_ret' = normalize_text(fn_arg)
    /\ fn_pc' = "done"
    /\ UNCHANGED <<fn_arg, m_vars, a_vars>>

\* normalize_text(normalize_text(x)): the argument is the first call's result
CallNormalizeAgain ==
    /\ fn_pc = "done"
    /\ fn_arg' = fn_ret
    /\ fn_ret' = normalize_text(fn_ret)
    /\ fn_pc' = "again"
    /\ UNCHANGED <<m_vars, a_vars>>

NextNorm == CallNormalize \/ CallNormalizeAgain

SpecNorm == InitNorm /\ [][NextNorm]_vars

\* C11: normalize_text is idempotent: normalizing what normalize_text returned
\* returns it unchanged, for every text; and the empty text gives the empty text.
C11_NormalizeIdempotent ==
    /\ (fn_pc = "again") => fn_ret = fn_arg
    /\ (fn_pc = "done" /\ fn_arg = <<>>) => fn_ret = <<>>

-----------------------------------------------------------------------------
(* Specification of similar: one call on each tested pair of texts *)

MaxSimLen == 3
SimAlphabet == {"a", "b", "c"}
SimTexts ==
    TextsUpTo(SimAlphabet, MaxSimLen)
    \cup {<<"t","i","d","e">>, <<"d","i","e","t">>}

InitSim ==
    /\ fn_pc = "call" /\ fn_arg \in SimTexts \X SimTexts /\ fn_ret = NoValue
    /\ IdleMatcher /\ IdleAddr

CallSimilar ==
    /\ fn_pc = "call"
    /\ fn_ret' = similar(fn_arg[1], fn_arg[2])
    /\ fn_pc' = "done"
    /\ UNCHANGED <<fn_arg, m_vars, a_vars>>

NextSim == CallSimilar

SpecSim == InitSim /\ [][NextSim]_vars

\* the fractions p and q are equal
SameRatio(p, q) == p.num * q.den = q.num * p.den

\* C12: similar is symmetric: similar(a, b) equals similar(b, a) for every pair
\* of texts; similar(a, a) is 1.0 for a non-empty a, and the value is 0.0 when
\* either text is empty.
C12_SimilarSymmetric ==
    fn_pc = "done" =>
      LET a == fn_arg[1]
          b == fn_arg[2]
      IN /\ SameRatio(fn_ret, similar(b, a))
         /\ (a = b /\ a # <<>>) => fn_ret.num = fn_ret.den
         /\ (a = <<>> \/ b = <<>>) => fn_ret.num = 0

-----------------------------------------------------------------------------
(* extract_from_myneta.py: extract_education_category *)

CategoryMarker == <<"C","a","t","e","g","o","r","y",":">>
FromToken == <<" ","f","r","o","m"," ">>

\* s.replace("\n", " ")
ReplaceNewlines(s) == [i \in DOMAIN s |-> IF s[i] = "\n" THEN " " ELSE s[i]]

\* s.split(sep, 1)[1] for a separator that occurs in s
SplitRest(s, sep) == SubSeq(s, Find(s, sep) + Len(sep) + 1, Len(s))

\* s.split(): the whitespace-delimited tokens of s, in order
RECURSIVE split(_)
split(s) ==
    IF s = <<>> THEN <<>>
    ELSE IF IsSpace(Head(s)) THEN split(Tail(s))
    ELSE LET n == CHOOSE k \in 1..Len(s) :
                      /\ \A h \in 1..k : ~IsSpace(s[h])
                      /\ (k = Len(s) \/ IsSpace(s[k + 1]))
         IN <<SubSeq(s, 1, n)>> \o split(SubSeq(s, n + 1, Len(s)))

\* the delimiters, in the order the loop tries them
delimiters == << <<"\"">>, <<"(">>, FromToken, <<"\n">> >>

\* the loop over the delimiters: the least offset at which one of them occurs
\* in text, or len(text)
RECURSIVE CutAt(_, _, _)
CutAt(text, k, cut) ==
    IF k > Len(delimiters) THEN cut
    ELSE LET idx == Find(text, delimiters[k])
         IN CutAt(text, k + 1, IF idx # -1 /\ idx < cut THEN idx ELSE cut)

extract_education_category(raw) ==
    IF raw = <<>> THEN <<>>
    ELSE LET text0 == strip(ReplaceNewlines(raw))
         IN IF ~Contains(text0, CategoryMarker) THEN <<>>
            ELSE LET text1 == strip(SplitRest(text0, CategoryMarker))
                     cut == CutAt(text1, 1, Len(text1))
                     text2 == CollapseSpaces(strip(SubSeq(text1, 1, cut)))
                     tokens == split(text2)
                 IN IF tokens = <<>> THEN <<>>
                    ELSE IF Len(tokens) = 1 THEN strip(tokens[1])
                    ELSE IF lower(tokens[1]) = lower(tokens[2]) THEN strip(tokens[1])
                    ELSE strip(tokens[1] \o <<" ">> \o tokens[2])

-----------------------------------------------------------------------------
(* Specification of extract_education_category: one call on each tested text *)

MaxEduParts == 4
EduParts ==
    {CategoryMarker, <<" ">>, <<"\n">>, <<"P","o","s","t">>, <<"p","o","s","t">>,
     <<"(">>, <<"\"">>, FromToken, <<"B",".","A">>}
ExampleEduText ==
    <<".",".","."," ">> \o CategoryMarker
    \o <<" ","P","o","s","t"," ","G","r","a","d","u","a","t","e"," ",
         "(","T","e","c","h",")"," ",".",".",".">>

\* the parts of a sequence of texts, joined
RECURSIVE Concat(_)
Concat(parts) == IF parts = <<>> THEN <<>> ELSE Head(parts) \o Concat(Tail(parts))

EduTexts ==
    {Concat(parts) : parts \in TextsUpTo(EduParts, MaxEduParts)}
    \cup {ExampleEduText}

InitEdu ==
    /\ fn_pc = "call" /\ fn_arg \in EduTexts /\ fn_ret = NoValue
    /\ IdleMatcher /\ IdleAddr

CallExtractEducation ==
    /\ fn_pc = "call"
    /\ fn_ret' = extract_education_category(fn_arg)
    /\ fn_pc' = "done"
    /\ UNCHANGED <<fn_arg, m_vars, a_vars>>

NextEdu == CallExtractEducation

SpecEdu == InitEdu /\ [][NextEdu]_vars

\* x occurs in t at 0-based offset i
OccursAt(t, x, i) ==
    /\ i + Len(x) <= Len(t)
    /\ \A k \in 1..Len(x) : t[i + k] = x[k]

\* the text after the first "Category:" of t
AfterFirstMarker(t) ==
    LET at == {i \in 0..Len(t) : OccursAt(t, CategoryMarker, i)}
        first == CHOOSE i \in at : \A j \in at : i <= j
    IN SubSeq(t, first + Len(CategoryMarker) + 1, Len(t))

\* t up to the earliest double quote, '(', " from " or line break
UpToEarliestDelimiter(t) ==
    LET at == {i \in 0..Len(t) :
                  \/ i = Len(t)
                  \/ OccursAt(t, <<"\"">>, i)
                  \/ OccursAt(t, <<"(">>, i)
                  \/ OccursAt(t, <<" ","f","r","o","m"," ">>, i)
                  \/ OccursAt(t, <<"\n">>, i)}
        cut == CHOOSE i \in at : \A j \in at : i <= j
    IN SubSeq(t, 1, cut)

\* C13: extract_education_category gives the empty text when there is no
\* "Category:" marker; otherwise, of the text after the first marker cut at the
\* earliest double quote, '(', " from " or line break, it gives the first token
\* when there is one token or the first two are equal ignoring case, else the
\* first two tokens joined by one space, in their original casing
\* ("... Category: Post Graduate (Tech) ..." gives "Post Graduate").
C13_EducationCategory ==
    fn_pc = "done" =>
      IF \A i \in 0..Len(fn_arg) : ~OccursAt(fn_arg, CategoryMarker, i)
      THEN fn_ret = <<>>
      ELSE LET w == split(UpToEarliestDelimiter(AfterFirstMarker(fn_arg)))
           IN /\ (Len(w) = 1) => fn_ret = w[1]
              /\ (Len(w) >= 2 /\ lower(w[1]) = lower(w[2])) => fn_ret = w[1]
              /\ (Len(w) >= 2 /\ lower(w[1]) # lower(w[2])) =>
                    fn_ret = w[1] \o <<" ">> \o w[2]

-----------------------------------------------------------------------------
(* search_myneta_for_candidate: query widening, backoff and the link returned *)

\* C14: when the bare-name query of attempt 1 shows no rows and the
\* constituency is not empty, the broadened query (name and constituency) is
\* issued; and the rows evaluated on the pass after a broadened query that
\* found rows are the rows of that query, not those of a fresh bare-name query.
C14_BroadenedRowsEvaluated ==
    /\ (pc = "search" /\ attempt = 2 /\ ~rows_seen /\ constituency # <<>>) =>
          BroadUrl \in tried_urls
    /\ (pc = "evaluate" /\ attempt = 2 /\ broadened) => page_query = "broad"

\* C15: a backoff of 1 + attempt seconds follows an attempt without a match
\* exactly when attempts remain: during attempt k the sleeps taken so far are
\* those after attempts 1 .. k-1, one each, and none follows the final attempt
\* before the empty result is returned.
C15_BackoffIffAttemptsRemain ==
    pc \in {"search", "wait", "direct", "stabilize", "evaluate", "returned"} =>
        backoffs = [k \in 1..(attempt - 1) |-> 1 + k]

\* C16: whenever a row is accepted, the value returned is a non-empty absolute
\* URL on the site origin https://www.myneta.info: a relative href, with or
\* without a leading '/', is resolved against the origin, and an accepted row
\* never gives the empty (unmatched) value.
C16_AcceptedRowGivesSiteUrl ==
    (pc = "returned" /\ verdicts # <<>> /\ verdicts[Len(verdicts)] = "accept") =>
        /\ result # <<>>
        /\ IsPrefix(SiteOrigin \o <<"/">>, result)

====
